---- MODULE Spec2Model ----
(***************************************************************************)
(* Model of the zero <-> jotai adapter: the cache of materialized views    *)
(* (viewsMaterialized), the ChangeListenerFactory view class with its      *)
(* keyed subscriptions and debounced row callbacks, the memoized           *)
(* zeroQueryAtom, and the useZeroQueryAtom hook.                           *)
(*                                                                         *)
(* JavaScript Maps are sequences of <<key, value>> pairs in insertion      *)
(* order.  Strings that the code builds or takes apart (debounce keys,     *)
(* node ids, error messages) are sequences of tokens.  An optional value   *)
(* is <<>> (undefined) or <<x>>.                                           *)
(***************************************************************************)
EXTENDS Integers, Sequences, FiniteSets, TLC

VARIABLES
    viewsMaterialized,  \* Map<string, ChangeListenerFactory>: pairs <<queryKey, view index>>
    views,              \* every ChangeListenerFactory ever constructed, by index
    cache,              \* the lodash memoize cache of zeroQueryAtom: pairs <<queryKey, result>>
    nextAtom,           \* number of atoms created by atom(...)
    comps,              \* the state of each component that uses the hook
    pushes,             \* number of changes the sync engine has pushed
    pending,            \* history: per view, the non-child changes pushed since its timer last fired
    step                \* what the last step called: callbacks, cleanup, materialize, onDestroy, error thrown

vars == <<viewsMaterialized, views, cache, nextAtom, comps, pushes, pending, step>>

----------------------------------------------------------------------------
(* Bounds of the model *)

MaxViews == 2
MaxAtoms == 3
MaxPush == 2
TickMs == 50

(* Program constant: the debounce wait in milliseconds *)
WAIT == 100

----------------------------------------------------------------------------
(* JavaScript Map, in insertion order *)

MapKeys(m) == {m[i][1] : i \in 1..Len(m)}

MapHas(m, k) == k \in MapKeys(m)

MapIndex(m, k) == CHOOSE i \in 1..Len(m) : m[i][1] = k

MapGet(m, k) == m[MapIndex(m, k)][2]

\* (mutation: set always adds an entry)
MapSetAppend(m, k, v) == Append(m, <<k, v>>)

\* Map.prototype.set: an existing key keeps its position
MapSet(m, k, v) ==
    IF MapHas(m, k) THEN [m EXCEPT ![MapIndex(m, k)] = <<k, v>>]
    ELSE Append(m, <<k, v>>)

\* Map.prototype.delete
MapDelete(m, k) == SelectSeq(m, LAMBDA p : p[1] # k)

----------------------------------------------------------------------------
(* Queries, client, rows, changes *)

Queries == {"qA1", "qA2", "qB"}

\* AdvancedQuery.hash(): qA1 and qA2 are two query objects for the same query
hash(q) == IF q = "qB" THEN "hB" ELSE "hA"

clientID == "client"

\* `${query.hash()}-${z.clientID}`
getClientQueryKey(q) == <<hash(q), "-", clientID>>

QueryKeys == {getClientQueryKey(q) : q \in Queries}

NoKey == <<>>


Row(id, ID, v) == [id |-> id, ID |-> ID, v |-> v]

Rows ==
    { Row(<<1>>, <<>>, "x"), Row(<<1>>, <<>>, "y"),
      Row(<<0>>, <<>>, "x"), Row(<<0>>, <<>>, "y"),
      Row(<<>>, <<2>>, "x") }

PrimaryKey(row) == <<row.id, row.ID>>

\* The changes the sync engine can push on a view holding `data`
ValidChanges(data) ==
    LET free == {r \in Rows : \A d \in data : PrimaryKey(d) # PrimaryKey(r)}
        adds == {[type |-> "add", row |-> r, oldRow |-> r] : r \in free}
        removes == {[type |-> "remove", row |-> r, oldRow |-> r] : r \in data}
        childs == {[type |-> "child", row |-> r, oldRow |-> r] : r \in data}
        edits == UNION {{[type |-> "edit", row |-> r, oldRow |-> o] :
                            r \in {x \in Rows : PrimaryKey(x) = PrimaryKey(o)}} : o \in data}
    IN  adds \cup removes \cup childs \cup edits

\* input.fetch({}) at construction
Fetches == { <<>>, <<Row(<<1>>, <<>>, "x"), Row(<<0>>, <<>>, "x")>> }

----------------------------------------------------------------------------
(* Subscriptions (ChangeFactorySubscriptions) *)

Callers == {"c1", "c2"}

\* the caller-supplied key
SubKey(c) == IF c = "c2" THEN "k2" ELSE "k1"

SubKeys == {SubKey(c) : c \in Callers}

\* which of the optional row callbacks each caller supplies
RowCallbacks(c) == IF c = "c2" THEN {"onAdd", "onUpdate"} ELSE {"onAdd", "onRemove", "onUpdate"}

\* a subscription as stored in #subscriptions: who supplied it and the callbacks it has
Subscription(c, fns) == [key |-> SubKey(c), owner |-> c, fns |-> fns]

DirectSubscription(c) == Subscription(c, RowCallbacks(c) \cup {"onData"})

Call(idx, sub, fn, arg) == [view |-> idx, key |-> sub.key, owner |-> sub.owner, fn |-> fn, arg |-> arg]

----------------------------------------------------------------------------
(* class ChangeListenerFactory *)

\* [this.data, {type: this.status}]
State(v) == <<v.data, v.status>>

\* (mutation: #onData calls nobody)
onDataCallsNone(idx, v) == <<>>

\* the calls #onData makes: one per subscription that has onData, in Map order
onDataCalls(idx, v) ==
    LET subs == SelectSeq(v.subscriptions, LAMBDA p : "onData" \in p[2].fns)
    IN  [i \in 1..Len(subs) |-> Call(idx, subs[i][2], "onData", State(v))]

\* applyChange of the sync engine, on the top-level list of rows
applyChangeData(data, change) ==
    CASE change.type = "add" -> data \cup {change.row}
      [] change.type = "remove" -> data \ {change.row}
      [] change.type = "edit" -> (data \ {change.oldRow}) \cup {change.row}
      [] OTHER -> data

\* #applyChange: the view after applyChange (the #onData calls are onDataCalls)
applyChange(v, change) == [v EXCEPT !.data = applyChangeData(v.data, change)]

\* (mutation: the count forgets the subscribers that remain)
hasSubscribersNever(v) == FALSE

hasSubscribers(v) == Len(v.subscriptions) # 0

addSubscriptions(v, opts) == [v EXCEPT !.subscriptions = MapSet(@, opts.key, opts)]

removeSubscriptions(v, key) == [v EXCEPT !.subscriptions = MapDelete(@, key)]

\* JavaScript truthiness of an optional number: undefined and 0 are falsy
Truthy(x) == x # <<>> /\ x[1] # 0

Digits == <<"0", "1", "2", "3", "4", "5", "6", "7", "8", "9">>

\* String(n) for a natural number, as its decimal digits
RECURSIVE StringOf(_)
StringOf(n) == IF n < 10 THEN <<Digits[n + 1]>> ELSE StringOf(n \div 10) \o <<Digits[(n % 10) + 1]>>

\* JSON.stringify(row): undefined fields are left out
JSONstringify(row) ==
    LET idPart == IF row.id = <<>> THEN <<>> ELSE <<"id", ":">> \o StringOf(row.id[1]) \o <<",">>
        IDPart == IF row.ID = <<>> THEN <<>> ELSE <<"ID", ":">> \o StringOf(row.ID[1]) \o <<",">>
    IN  <<"{">> \o idPart \o IDPart \o <<"v", ":", row.v, "}">>

\* #getNodeId: row.id || row.ID, as a string, or else the JSON of the row
getNodeId(row) ==
    LET id == IF Truthy(row.id) THEN row.id ELSE row.ID
    IN  IF Truthy(id) THEN StringOf(id[1]) ELSE JSONstringify(row)

\* #createDebounceKey: `${type}-${nodeId}`
createDebounceKey(type, nodeId) == <<type, "-">> \o nodeId

\* String.prototype.split("-")[0]: the text before the first "-"
RECURSIVE SplitFirst(_)
SplitFirst(str) ==
    IF str = <<>> \/ Head(str) = "-" THEN <<>> ELSE <<Head(str)>> \o SplitFirst(Tail(str))

\* #decriptDebounceKey
decriptDebounceKey(debounceKey) == SplitFirst(debounceKey)[1]

\* #typeToFunctionKey
typeToFunctionKey(type) ==
    CASE type = "add" -> "onAdd"
      [] type = "remove" -> "onRemove"
      [] type = "edit" -> "onUpdate"

\* the calls #handleConsolidated makes: for each queued entry in Map order, for
\* each subscription in Map order that has the entry's callback
handleConsolidatedCalls(idx, v) ==
    LET q == v.consolidatedCallbacks
        subs == v.subscriptions
        n == Len(q)
        m == Len(subs)
        entry(i) == q[((i - 1) \div m) + 1]
        sub(i) == subs[((i - 1) % m) + 1][2]
        fn(i) == typeToFunctionKey(decriptDebounceKey(entry(i)[1]))
        all == [i \in 1..(n * m) |-> Call(idx, sub(i), fn(i), <<entry(i)[2]>>)]
        has == [i \in 1..(n * m) |-> fn(i) \in sub(i).fns]
        keep == {i \in 1..(n * m) : has[i]}
        rank(i) == Cardinality({j \in keep : j <= i})
    IN  [k \in 1..Cardinality(keep) |-> all[CHOOSE i \in keep : rank(i) = k]]

\* #handleConsolidated
handleConsolidated(v) == [v EXCEPT !.consolidatedCallbacks = <<>>]

\* debounce options of the constructor
leading == FALSE

\* (mutation: the debounce is created with trailing: false)
trailingOff == FALSE

trailing == TRUE

\* (mutation: the debounce is created with leading: true)
InvokesOnLeadingEdgeAlways(v) == ~v.timerId

\* whether a call of the debounced function invokes #handleConsolidated at once
\* (lodash: the leading edge, when no timer is pending)
InvokesOnLeadingEdge(v) == leading /\ ~v.timerId

\* the debounced function is called: the wait starts again
handleConsolidatedDebounced(v) ==
    LET w == IF InvokesOnLeadingEdge(v) THEN handleConsolidated(v) ELSE v
    IN  [w EXCEPT !.timerId = TRUE, !.sinceLastCall = 0]

\* #consolidateChanges
consolidateChanges(v, changeType, nodeId, data) ==
    handleConsolidatedDebounced(
        [v EXCEPT !.consolidatedCallbacks = MapSet(@, createDebounceKey(changeType, nodeId), data)])

\* (mutation: push has no early return for a child change)
pushConsolidatesAll(v, change) ==
    consolidateChanges(applyChange(v, change), change.type, getNodeId(change.row), change.row)

\* push
push(v, change) ==
    LET w == applyChange(v, change)
    IN  IF change.type = "child" THEN w
        ELSE consolidateChanges(w, change.type, getNodeId(change.row), change.row)

\* the calls push makes
pushCalls(idx, v, change) ==
    LET w == applyChange(v, change)
        q == [w EXCEPT !.consolidatedCallbacks =
                MapSet(@, createDebounceKey(change.type, getNodeId(change.row)), change.row)]
    IN  onDataCalls(idx, w)
        \o (IF change.type # "child" /\ InvokesOnLeadingEdge(q)
            THEN handleConsolidatedCalls(idx, q) ELSE <<>>)

\* errors onDestroy can raise: a thrown value is an Error or not, and has a text
Err(isError, message) == <<[isError |-> isError, message |-> message]>>

NoError == <<>>

ConnectionNotFound == <<"Connection", "not", "found">>

Outcomes ==
    { NoError,
      Err(TRUE, <<"Error", ":">> \o ConnectionNotFound),
      Err(TRUE, <<"connection", "not", "found">>),
      Err(FALSE, ConnectionNotFound) }

\* String.prototype.includes
includes(str, search) ==
    \E i \in 0..(Len(str) - Len(search)) : SubSeq(str, i + 1, i + Len(search)) = search

\* (mutation: the catch clause swallows everything)
destroySwallowsAll(e) == TRUE

\* the catch clause of destroy: which raised values it swallows
destroySwallows(e) == e[1].isError /\ includes(e[1].message, ConnectionNotFound)

\* destroy: the view after it (the clears come before onDestroy raises)
destroy(v) ==
    [v EXCEPT !.consolidatedCallbacks = <<>>, !.subscriptions = <<>>, !.destroyed = TRUE]

\* destroy: what it throws to its caller when onDestroy raises e
destroyThrows(e) == IF e = NoError \/ destroySwallows(e) THEN NoError ELSE e

\* whether the sync engine may still have the view as an output once onDestroy
\* has raised e: not when onDestroy returned or found the connection already
\* gone; when it failed in another way the code cannot tell, and a later push
\* may come or not
StaysConnected(e) == ~(e = NoError \/ destroySwallows(e))

\* this.#onDestroy() has run for the views in onDestroy
onDestroyRan(vs, onDestroy) ==
    [idx \in 1..Len(vs) |->
        IF \E i \in 1..Len(onDestroy) : onDestroy[i].view = idx
        THEN [vs[idx] EXCEPT !.connected =
                \E i \in 1..Len(onDestroy) :
                    onDestroy[i].view = idx /\ StaysConnected(onDestroy[i].raised)]
        ELSE vs[idx]]

\* constructor, up to the initial fetch
newChangeListenerFactory(queryComplete, subscriptions) ==
    [ subscriptions |-> <<<<subscriptions.key, subscriptions>>>>,
      data |-> {},
      status |-> IF queryComplete THEN "complete" ELSE "unknown",
      consolidatedCallbacks |-> <<>>,
      timerId |-> FALSE,
      sinceLastCall |-> 0,
      destroyed |-> FALSE,
      \* input.setOutput(this): the sync engine may push to this view
      connected |-> TRUE ]

\* constructor: for (const node of input.fetch({})) this.#applyChange({type: "add", node})
RECURSIVE fetchAll(_, _)
fetchAll(v, nodes) ==
    IF nodes = <<>> THEN v
    ELSE fetchAll(applyChange(v, [type |-> "add", row |-> Head(nodes), oldRow |-> Head(nodes)]),
                  Tail(nodes))

\* the onData calls of the constructor's fetch loop
RECURSIVE fetchAllCalls(_, _, _)
fetchAllCalls(idx, v, nodes) ==
    IF nodes = <<>> THEN <<>>
    ELSE LET w == applyChange(v, [type |-> "add", row |-> Head(nodes), oldRow |-> Head(nodes)])
         IN  onDataCalls(idx, w) \o fetchAllCalls(idx, w, Tail(nodes))

\* queryComplete.then(() => { this.#state[1] = {type: "complete"} })
queryCompleteThen(v) == [v EXCEPT !.status = "complete"]

----------------------------------------------------------------------------
(* The module-level view cache *)

\* (mutation: the lookup never finds the view, so every call materializes)
viewCachedNever(vm, key) == FALSE

\* whether getMaterializedFactoryView finds a cached view
viewCached(vm, key) == MapHas(vm, key)

\* getMaterializedFactoryView: the cache and views after it, the view returned,
\* the callbacks called and the keys query.materialize was called for
getMaterializedFactoryView(vm, vs, query, subscriptions, fetch, queryComplete) ==
    LET key == getClientQueryKey(query)
    IN  IF viewCached(vm, key)
        THEN LET idx == MapGet(vm, key)
             IN  [ viewsMaterialized |-> vm,
                   views |-> [vs EXCEPT ![idx] = addSubscriptions(@, subscriptions)],
                   view |-> idx, calls |-> <<>>, materialize |-> <<>>,
                   getView |-> <<[queryKey |-> key, subscriptions |-> subscriptions]>> ]
        ELSE LET idx == Len(vs) + 1
                 v == newChangeListenerFactory(queryComplete, subscriptions)
             IN  [ viewsMaterialized |-> MapSet(vm, key, idx),
                   views |-> Append(vs, fetchAll(v, fetch)),
                   view |-> idx, calls |-> fetchAllCalls(idx, v, fetch),
                   materialize |-> <<key>>,
                   getView |-> <<[queryKey |-> key, subscriptions |-> subscriptions]>> ]

\* cleanupMaterializedFactoryView, when onDestroy would raise e
cleanupMaterializedFactoryView(vm, vs, queryKey, subscriptionKey, e) ==
    IF ~MapHas(vm, queryKey)
    THEN [viewsMaterialized |-> vm, views |-> vs, onDestroy |-> <<>>, thrown |-> NoError]
    ELSE LET idx == MapGet(vm, queryKey)
             v == removeSubscriptions(vs[idx], subscriptionKey)
         IN  IF hasSubscribers(v)
             THEN [ viewsMaterialized |-> vm, views |-> [vs EXCEPT ![idx] = v],
                    onDestroy |-> <<>>, thrown |-> NoError ]
             ELSE [ viewsMaterialized |->
                        IF destroyThrows(e) = NoError THEN MapDelete(vm, queryKey) ELSE vm,
                    views |-> [vs EXCEPT ![idx] = destroy(v)],
                    onDestroy |-> <<[view |-> idx, raised |-> e]>>,
                    thrown |-> destroyThrows(e) ]

----------------------------------------------------------------------------
(* zeroQueryAtom and the hook *)

\* (mutation: the effect cleans up on every run)
queryKeyChangedAlways(previousQueryKey, queryKey) == TRUE

\* the condition of the effect: if (previousQueryKey.current !== queryKey)
queryKeyChanged(previousQueryKey, queryKey) == previousQueryKey # queryKey

\* (mutation: no memoization, every call runs the body)
memoizeHasNever(c, key) == FALSE

\* lodash memoize: whether the cache has the key the resolver computed
memoizeHas(c, key) == MapHas(c, key)

\* zeroQueryAtom({query, subscriptions, store}): memoized on getClientQueryKey(query).
\* The body creates the atom, gets the view with onData added to the caller's
\* subscriptions, and returns {stateAtom, queryKey, cleanup}; cleanup closes over
\* the subscriptions of the call that ran the body.
zeroQueryAtom(c, n, vm, vs, query, subscriptions, fetch, queryComplete) ==
    LET key == getClientQueryKey(query)
    IN  IF memoizeHas(c, key)
        THEN [ cache |-> c, nextAtom |-> n, viewsMaterialized |-> vm, views |-> vs,
               result |-> MapGet(c, key), calls |-> <<>>, materialize |-> <<>>,
               getView |-> <<>> ]
        ELSE LET got == getMaterializedFactoryView(vm, vs, query,
                            [subscriptions EXCEPT !.fns = @ \cup {"onData"}], fetch, queryComplete)
                 result == [ stateAtom |-> n + 1, queryKey |-> key,
                             cleanupSubscriptionKey |-> subscriptions.key,
                             materializedFactoryView |-> got.view ]
             IN  [ cache |-> MapSet(c, key, result), nextAtom |-> n + 1,
                   viewsMaterialized |-> got.viewsMaterialized, views |-> got.views,
                   result |-> result, calls |-> got.calls, materialize |-> got.materialize,
                   getView |-> got.getView ]

Comps == Callers

Unmounted ==
    [ mounted |-> FALSE, queryKey |-> NoKey, stateAtom |-> 0, cleanupSubscriptionKey |-> "",
      previousQueryKey |-> NoKey, pendingEffect |-> FALSE ]

\* a step that calls nothing.  The fields: the subscriber callbacks called, in order;
\* the calls of getMaterializedFactoryView and of cleanupMaterializedFactoryView; the
\* keys query.materialize was called for; the onDestroy calls with what each raised;
\* the error the step's handler threw; the change pushed; the subscription that
\* addSubscriptions replaced
Quiet ==
    [ calls |-> <<>>, getView |-> <<>>, cleanup |-> <<>>, materialize |-> <<>>,
      onDestroy |-> <<>>, thrown |-> NoError, push |-> <<>>, replaced |-> <<>> ]

\* what the call of getMaterializedFactoryView in getView found registered under
\* the key it passed
Replaced(vm, vs, getView) ==
    IF /\ getView # <<>>
       /\ viewCached(vm, getView[1].queryKey)
       /\ MapHas(vs[MapGet(vm, getView[1].queryKey)].subscriptions, getView[1].subscriptions.key)
    THEN <<MapGet(vs[MapGet(vm, getView[1].queryKey)].subscriptions, getView[1].subscriptions.key)>>
    ELSE <<>>

----------------------------------------------------------------------------
(* The state machine *)

Init ==
    /\ viewsMaterialized = <<>>
    /\ views = <<>>
    /\ cache = <<>>
    /\ nextAtom = 0
    /\ comps = [c \in Comps |-> Unmounted]
    /\ pushes = 0
    /\ pending = <<>>
    /\ step = Quiet

\* the sync engine pushes a change to a view it may have as an output
Push(idx, change) ==
    /\ pushes < MaxPush
    /\ views[idx].connected
    /\ views' = [views EXCEPT ![idx] = push(@, change)]
    /\ pushes' = pushes + 1
    /\ pending' = [pending EXCEPT ![idx] = IF change.type = "child" THEN @ ELSE Append(@, change)]
    /\ step' = [Quiet EXCEPT !.calls = pushCalls(idx, views[idx], change),
                             !.push = <<[view |-> idx, change |-> change]>>]
    /\ UNCHANGED <<viewsMaterialized, cache, nextAtom, comps>>

\* time passes: TickMs more milliseconds since the last debounced call
Tick ==
    /\ \E idx \in 1..Len(views) : views[idx].timerId /\ views[idx].sinceLastCall < WAIT
    /\ views' = [idx \in 1..Len(views) |->
                    IF views[idx].timerId /\ views[idx].sinceLastCall < WAIT
                    THEN [views[idx] EXCEPT !.sinceLastCall =
                            IF @ + TickMs >= WAIT THEN WAIT ELSE @ + TickMs]
                    ELSE views[idx]]
    /\ step' = Quiet
    /\ UNCHANGED <<viewsMaterialized, cache, nextAtom, comps, pushes, pending>>

\* the debounce timer fires once WAIT ms have passed since the last call (lodash
\* timerExpired -> trailingEdge): the trailing invocation of #handleConsolidated
TimerExpired(idx) ==
    /\ views[idx].timerId
    /\ views[idx].sinceLastCall >= WAIT
    /\ views' = [views EXCEPT ![idx] =
                    [(IF trailing THEN handleConsolidated(@) ELSE @) EXCEPT !.timerId = FALSE]]
    /\ step' = [Quiet EXCEPT !.calls =
                    IF trailing THEN handleConsolidatedCalls(idx, views[idx]) ELSE <<>>]
    /\ pending' = [pending EXCEPT ![idx] = <<>>]
    /\ UNCHANGED <<viewsMaterialized, cache, nextAtom, comps, pushes>>

\* the queryComplete promise of a view resolves (the status is "unknown" exactly
\* while the promise is pending)
QueryComplete(idx) ==
    /\ views[idx].status = "unknown"
    /\ views' = [views EXCEPT ![idx] = queryCompleteThen(@)]
    /\ step' = Quiet
    /\ UNCHANGED <<viewsMaterialized, cache, nextAtom, comps, pushes, pending>>

\* a direct call of getMaterializedFactoryView
Subscribe(caller, query, fetch, queryComplete) ==
    /\ viewCached(viewsMaterialized, getClientQueryKey(query)) \/ Len(views) < MaxViews
    /\ LET r == getMaterializedFactoryView(viewsMaterialized, views, query,
                    DirectSubscription(caller), fetch, queryComplete)
       IN  /\ viewsMaterialized' = r.viewsMaterialized
           /\ views' = r.views
           /\ pending' = IF Len(r.views) > Len(views) THEN Append(pending, <<>>) ELSE pending
           /\ step' = [Quiet EXCEPT !.calls = r.calls, !.materialize = r.materialize,
                                    !.getView = r.getView,
                                    !.replaced = Replaced(viewsMaterialized, views, r.getView)]
    /\ UNCHANGED <<cache, nextAtom, comps, pushes>>

\* a direct call of cleanupMaterializedFactoryView
Cleanup(queryKey, subscriptionKey, e) ==
    /\ LET r == cleanupMaterializedFactoryView(viewsMaterialized, views, queryKey, subscriptionKey, e)
       IN  /\ viewsMaterialized' = r.viewsMaterialized
           /\ views' = onDestroyRan(r.views, r.onDestroy)
           /\ step' = [Quiet EXCEPT
                        !.cleanup = <<[queryKey |-> queryKey, subscriptionKey |-> subscriptionKey]>>,
                        !.onDestroy = r.onDestroy, !.thrown = r.thrown]
    /\ UNCHANGED <<cache, nextAtom, comps, pushes, pending>>

\* a component renders with a query: the body of useZeroQueryAtom up to useEffect
Render(c, query, fetch, queryComplete) ==
    /\ ~comps[c].pendingEffect
    /\ \/ memoizeHas(cache, getClientQueryKey(query))
       \/ /\ nextAtom < MaxAtoms
          /\ viewCached(viewsMaterialized, getClientQueryKey(query)) \/ Len(views) < MaxViews
    /\ LET r == zeroQueryAtom(cache, nextAtom, viewsMaterialized, views, query,
                    Subscription(c, RowCallbacks(c)), fetch, queryComplete)
       IN  /\ cache' = r.cache
           /\ nextAtom' = r.nextAtom
           /\ viewsMaterialized' = r.viewsMaterialized
           /\ views' = r.views
           /\ comps' = [comps EXCEPT ![c] =
                  [ mounted |-> TRUE,
                    queryKey |-> r.result.queryKey,
                    stateAtom |-> r.result.stateAtom,
                    cleanupSubscriptionKey |-> r.result.cleanupSubscriptionKey,
                    \* useRef(queryKey): the initial value counts on the first render only
                    previousQueryKey |-> IF @.mounted THEN @.previousQueryKey ELSE r.result.queryKey,
                    \* useEffect(..., [queryKey]): runs on mount and when queryKey changed
                    pendingEffect |-> ~@.mounted \/ @.queryKey # r.result.queryKey ]]
           /\ pending' = IF Len(r.views) > Len(views) THEN Append(pending, <<>>) ELSE pending
           /\ step' = [Quiet EXCEPT !.calls = r.calls, !.materialize = r.materialize,
                                    !.getView = r.getView,
                                    !.replaced = Replaced(viewsMaterialized, views, r.getView)]
    /\ UNCHANGED pushes

\* the effect of useZeroQueryAtom runs after the commit; an error thrown in it
\* makes React unmount the component
Effect(c, e) ==
    /\ comps[c].pendingEffect
    /\ IF queryKeyChanged(comps[c].previousQueryKey, comps[c].queryKey)
       THEN LET r == cleanupMaterializedFactoryView(viewsMaterialized, views,
                        comps[c].previousQueryKey, comps[c].cleanupSubscriptionKey, e)
            IN  /\ viewsMaterialized' = r.viewsMaterialized
                /\ views' = onDestroyRan(r.views, r.onDestroy)
                /\ step' = [Quiet EXCEPT
                        !.cleanup = <<[queryKey |-> comps[c].previousQueryKey,
                                       subscriptionKey |-> comps[c].cleanupSubscriptionKey]>>,
                        !.onDestroy = r.onDestroy, !.thrown = r.thrown]
                /\ comps' = [comps EXCEPT ![c] =
                        IF r.thrown = NoError
                        THEN [@ EXCEPT !.previousQueryKey = comps[c].queryKey, !.pendingEffect = FALSE]
                        ELSE Unmounted]
       ELSE /\ comps' = [comps EXCEPT ![c].pendingEffect = FALSE]
            /\ step' = Quiet
            /\ UNCHANGED <<viewsMaterialized, views>>
    /\ UNCHANGED <<cache, nextAtom, pushes, pending>>

\* a component unmounts: the effect returns no cleanup function, so nothing runs
Unmount(c) ==
    /\ comps[c].mounted
    /\ ~comps[c].pendingEffect
    /\ comps' = [comps EXCEPT ![c] = Unmounted]
    /\ step' = Quiet
    /\ UNCHANGED <<viewsMaterialized, views, cache, nextAtom, pushes, pending>>

PushSome == \E idx \in 1..Len(views) : \E change \in ValidChanges(views[idx].data) : Push(idx, change)

TimerExpiredSome == \E idx \in 1..Len(views) : TimerExpired(idx)

QueryCompleteSome == \E idx \in 1..Len(views) : QueryComplete(idx)

\* the inputs of query.materialize, which matter only when a call reaches it
FetchInputs(query) ==
    IF viewCached(viewsMaterialized, getClientQueryKey(query)) THEN {<<>>} ELSE Fetches

QueryCompleteInputs(query) ==
    IF viewCached(viewsMaterialized, getClientQueryKey(query)) THEN {TRUE} ELSE BOOLEAN

\* what onDestroy can raise, which matters only when a cleanup reaches destroy
OutcomeInputs(queryKey, subscriptionKey) ==
    IF cleanupMaterializedFactoryView(viewsMaterialized, views, queryKey, subscriptionKey,
                                      NoError).onDestroy = <<>>
    THEN {NoError} ELSE Outcomes

SubscribeSome ==
    \E caller \in Callers, query \in Queries :
        \E fetch \in FetchInputs(query), queryComplete \in QueryCompleteInputs(query) :
            Subscribe(caller, query, fetch, queryComplete)

CleanupSome ==
    \E queryKey \in QueryKeys, subscriptionKey \in SubKeys :
        \E e \in OutcomeInputs(queryKey, subscriptionKey) :
            Cleanup(queryKey, subscriptionKey, e)

RenderSome ==
    \E c \in Comps, query \in Queries :
        \E fetch \in FetchInputs(query), queryComplete \in QueryCompleteInputs(query) :
            Render(c, query, fetch, queryComplete)

EffectSome ==
    \E c \in Comps :
        \E e \in OutcomeInputs(comps[c].previousQueryKey, comps[c].cleanupSubscriptionKey) :
            Effect(c, e)

UnmountSome == \E c \in Comps : Unmount(c)

\* the hook as components use it
Next ==
    \/ RenderSome
    \/ EffectSome
    \/ UnmountSome
    \/ QueryCompleteSome

Spec == Init /\ [][Next]_vars

\* the view cache called directly, for every query
NextFactory ==
    \/ SubscribeSome
    \/ CleanupSome
    \/ QueryCompleteSome

SpecFactory == Init /\ [][NextFactory]_vars

\* the data flow of the views of one query: subscribers come and go while the
\* sync engine pushes changes and the debounce timer runs
ViewQuery == "qA1"

\* the rows this query's view fetches when it is constructed
ViewFetch == <<Row(<<1>>, <<>>, "x"), Row(<<0>>, <<>>, "x")>>

SubscribeView == \E caller \in Callers : Subscribe(caller, ViewQuery, ViewFetch, TRUE)

CleanupView == \E subscriptionKey \in SubKeys : Cleanup(getClientQueryKey(ViewQuery), subscriptionKey, NoError)

NextView ==
    \/ SubscribeView
    \/ CleanupView
    \/ PushSome
    \/ Tick
    \/ TimerExpiredSome

SpecView == Init /\ [][NextView]_vars

\* the data flow of the views of one query when onDestroy can fail
CleanupDestroy ==
    \E subscriptionKey \in SubKeys :
        \E e \in OutcomeInputs(getClientQueryKey(ViewQuery), subscriptionKey) :
            Cleanup(getClientQueryKey(ViewQuery), subscriptionKey, e)

NextDestroy ==
    \/ SubscribeView
    \/ CleanupDestroy
    \/ PushSome
    \/ Tick
    \/ TimerExpiredSome

SpecDestroy == Init /\ [][NextDestroy]_vars

\* the subscriptions of the view of one query when a third caller passes the key
\* that caller c1 passes
KeyCallers == Callers \cup {"c3"}

SubscribeKeys == \E caller \in KeyCallers : Subscribe(caller, ViewQuery, ViewFetch, TRUE)

NextKeys ==
    \/ SubscribeKeys
    \/ CleanupView
    \/ PushSome

SpecKeys == Init /\ [][NextKeys]_vars

\* the same, with the event loop's guarantees: time passes while a timer is
\* running, and a timer whose wait is over fires
SpecViewLive == SpecView /\ WF_vars(Tick) /\ WF_vars(TimerExpiredSome)

----------------------------------------------------------------------------
(* Claims about the view cache, under SpecFactory *)

RowFunctionKeys == {"onAdd", "onRemove", "onUpdate"}

\* the view cached for a key
CachedView(vm, vs, key) == vs[MapGet(vm, key)]

\* a Map holds a key once
UniqueKeys(m) == \A i, j \in 1..Len(m) : m[i][1] = m[j][1] => i = j

\* C1: viewsMaterialized holds at most one view per query key; a call of
\* getMaterializedFactoryView calls query.materialize only when no view is cached
\* for the key, and then caches the new view; when a view is cached, no view is
\* materialized, the cache is unchanged and the caller's subscription is added
\* to the cached view.
C1_MaterializeOnlyWhenAbsent ==
    [][ /\ UniqueKeys(viewsMaterialized')
        /\ \A i \in 1..Len(step'.materialize) :
              /\ ~MapHas(viewsMaterialized, step'.materialize[i])
              /\ MapHas(viewsMaterialized', step'.materialize[i])
              /\ MapGet(viewsMaterialized', step'.materialize[i]) = Len(views) + 1
        /\ \A i \in 1..Len(step'.getView) :
              LET call == step'.getView[i]
              IN  IF MapHas(viewsMaterialized, call.queryKey)
                  THEN /\ step'.materialize = <<>>
                       /\ viewsMaterialized' = viewsMaterialized
                       /\ Len(views') = Len(views)
                       /\ LET before == CachedView(viewsMaterialized, views, call.queryKey)
                              after == CachedView(viewsMaterialized', views', call.queryKey)
                          IN  /\ MapKeys(after.subscriptions) =
                                    MapKeys(before.subscriptions) \cup {call.subscriptions.key}
                              /\ MapGet(after.subscriptions, call.subscriptions.key) = call.subscriptions
                  ELSE step'.materialize = <<call.queryKey>> ]_vars

\* C1 witness: a call found the view cached and added a second subscription to it
C1_Witness ==
    /\ step.getView # <<>>
    /\ step.materialize = <<>>
    /\ Len(CachedView(viewsMaterialized, views, step.getView[1].queryKey).subscriptions) = 2

\* what a cleanup leaves of the subscriptions of the cached view
Remaining(call) ==
    MapDelete(CachedView(viewsMaterialized, views, call.queryKey).subscriptions, call.subscriptionKey)

IsConnectionNotFound(e) ==
    /\ e[1].isError
    /\ \E i \in 1..Len(e[1].message) :
          /\ i + 2 <= Len(e[1].message)
          /\ e[1].message[i] = "Connection"
          /\ e[1].message[i + 1] = "not"
          /\ e[1].message[i + 2] = "found"

\* C8: when onDestroy raises an Error whose message contains "Connection not
\* found", destroy returns normally and the cleanup removes the view from
\* viewsMaterialized; every other raised value is thrown on to the caller.
C8_DestroySwallowsConnectionNotFound ==
    \A i \in 1..Len(step.onDestroy) :
        LET e == step.onDestroy[i].raised
        IN  e # NoError =>
              IF IsConnectionNotFound(e)
              THEN /\ step.thrown = NoError
                   /\ \A j \in 1..Len(step.cleanup) :
                        ~MapHas(viewsMaterialized, step.cleanup[j].queryKey)
              ELSE step.thrown = e

\* C8 witness: onDestroy has just raised "Error: Connection not found", nothing was
\* thrown and the view is gone from the cache
C8_Witness ==
    /\ step.onDestroy # <<>>
    /\ step.onDestroy[1].raised # NoError
    /\ IsConnectionNotFound(step.onDestroy[1].raised)
    /\ step.thrown = NoError
    /\ ~MapHas(viewsMaterialized, step.cleanup[1].queryKey)

\* C9 as written: whenever the result [data, status] of a view changes, every
\* subscriber's onData is called with the new [data, status].
C9_OnDataOnEveryResultChange ==
    [][ \A idx \in 1..Len(views) :
          State(views'[idx]) # State(views[idx]) =>
              \A s \in 1..Len(views'[idx].subscriptions) :
                  "onData" \in views'[idx].subscriptions[s][2].fns =>
                      \E n \in 1..Len(step'.calls) :
                          /\ step'.calls[n].view = idx
                          /\ step'.calls[n].key = views'[idx].subscriptions[s][1]
                          /\ step'.calls[n].fn = "onData"
                          /\ step'.calls[n].arg = State(views'[idx]) ]_vars

----------------------------------------------------------------------------
(* Claims about the debounced row callbacks, under SpecView *)

\* the row id as the claim describes it: the id field, or the ID field, or else
\* the JSON of the row
RowId(row) ==
    IF row.id # <<>> THEN StringOf(row.id[1])
    ELSE IF row.ID # <<>> THEN StringOf(row.ID[1])
    ELSE JSONstringify(row)

\* the row of the last change in `changes` with the given type and row id
LastRow(changes, type, rid) ==
    LET at == {n \in 1..Len(changes) : changes[n].type = type /\ RowId(changes[n].row) = rid}
    IN  changes[CHOOSE n \in at : \A m \in at : m <= n].row

\* the debounce timer of view idx fires in this step
Fires(idx) == views[idx].timerId /\ ~views'[idx].timerId

\* C6 as written: when the timer fires, for every (operation type, row id) among the
\* changes pushed since the last flush, each subscriber that has the matching
\* callback gets exactly one call of it for that pair, with the row of the last
\* such change; and the queue is empty afterwards.
C6_OncePerTypeAndRowId ==
    [][ \A idx \in 1..Len(views) :
          Fires(idx) =>
            /\ views'[idx].consolidatedCallbacks = <<>>
            /\ \A s \in 1..Len(views[idx].subscriptions), n \in 1..Len(pending[idx]) :
                 LET sub == views[idx].subscriptions[s][2]
                     type == pending[idx][n].type
                     rid == RowId(pending[idx][n].row)
                     got == {k \in 1..Len(step'.calls) :
                                /\ step'.calls[k].view = idx
                                /\ step'.calls[k].key = sub.key
                                /\ step'.calls[k].fn = typeToFunctionKey(type)
                                /\ RowId(step'.calls[k].arg[1]) = rid}
                 IN  typeToFunctionKey(type) \in sub.fns =>
                        /\ Cardinality(got) = 1
                        /\ \A k \in got : step'.calls[k].arg = <<LastRow(pending[idx], type, rid)>> ]_vars

\* C7: a row callback (onAdd, onRemove, onUpdate) is called only by the timer, when
\* WAIT ms have passed since the last non-child change pushed to the view; a push
\* calls none, and a pushed non-child change starts the wait again from zero.
C7_TrailingEdgeOnly ==
    [][ /\ \A k \in 1..Len(step'.calls) :
              step'.calls[k].fn \in RowFunctionKeys =>
                  /\ step'.push = <<>>
                  /\ views[step'.calls[k].view].timerId
                  /\ views[step'.calls[k].view].sinceLastCall >= WAIT
        /\ \A i \in 1..Len(step'.push) :
              step'.push[i].change.type # "child" =>
                  /\ views'[step'.push[i].view].timerId
                  /\ views'[step'.push[i].view].sinceLastCall = 0 ]_vars

\* C7 witness: after two pushes the timer has fired, WAIT ms after the last of
\* them, and has just delivered a row callback
C7_Witness ==
    /\ \E k \in 1..Len(step.calls) :
          /\ step.calls[k].fn \in RowFunctionKeys
          /\ views[step.calls[k].view].sinceLastCall >= WAIT
          /\ ~views[step.calls[k].view].timerId
    /\ pushes >= 2

----------------------------------------------------------------------------
(* Claims about the hook and the memoized atom, under Spec *)

\* component c stops being mounted in this step
Unmounts(c) == comps[c].mounted /\ ~comps'[c].mounted

\* the effect of component c runs in this step
EffectRuns(c) == comps[c].pendingEffect /\ ~comps'[c].pendingEffect

\* C3 as written: when a mounted component unmounts, its subscription key is
\* removed from the view of its query, and the view is destroyed and removed from
\* viewsMaterialized if no other subscriber remains.
C3_UnmountCleansUp ==
    [][ \A c \in Comps :
          (Unmounts(c) /\ MapHas(viewsMaterialized, comps[c].queryKey)) =>
              LET key == comps[c].queryKey
                  left == MapDelete(CachedView(viewsMaterialized, views, key).subscriptions, SubKey(c))
              IN  IF left = <<>>
                  THEN ~MapHas(viewsMaterialized', key)
                  ELSE /\ MapHas(viewsMaterialized', key)
                       /\ ~MapHas(CachedView(viewsMaterialized', views', key).subscriptions, SubKey(c)) ]_vars

\* C4: when the effect runs with a query key that differs from previousQueryKey,
\* cleanup is called exactly once, with the previous key, and the component that
\* stays mounted records the new key; when the key is unchanged no cleanup is
\* called; no other step calls cleanup; and whenever a mounted component has no
\* effect pending, previousQueryKey is the key of its last render.
C4_CleanupOnQueryKeyChange ==
    [][ /\ \A c \in Comps :
              /\ EffectRuns(c) =>
                    IF comps[c].previousQueryKey # comps[c].queryKey
                    THEN /\ Len(step'.cleanup) = 1
                         /\ step'.cleanup[1].queryKey = comps[c].previousQueryKey
                         /\ comps'[c].mounted => comps'[c].previousQueryKey = comps[c].queryKey
                    ELSE /\ step'.cleanup = <<>>
                         /\ comps'[c].previousQueryKey = comps[c].previousQueryKey
              /\ (comps'[c].mounted /\ ~comps'[c].pendingEffect) =>
                    comps'[c].previousQueryKey = comps'[c].queryKey
        /\ step'.cleanup # <<>> => \E c \in Comps : EffectRuns(c) ]_vars

\* C4 witness: an effect has just cleaned up the previous key hA and recorded hB
C4_Witness ==
    \E c \in Comps :
        /\ comps[c].mounted
        /\ ~comps[c].pendingEffect
        /\ Len(step.cleanup) = 1
        /\ step.cleanup[1].queryKey = getClientQueryKey("qA1")
        /\ comps[c].previousQueryKey = getClientQueryKey("qB")
        /\ comps[c].queryKey = getClientQueryKey("qB")

\* C5 as written: when two mounted components with distinct subscription keys use
\* the same query, the subscriptions of the query's view contain both keys.
C5_BothSubscribed ==
    \A c, d \in Comps :
        ( /\ c # d
          /\ comps[c].mounted /\ comps[d].mounted
          /\ comps[c].queryKey = comps[d].queryKey
          /\ MapHas(viewsMaterialized, comps[c].queryKey) ) =>
            {SubKey(c), SubKey(d)} \subseteq
                MapKeys(CachedView(viewsMaterialized, views, comps[c].queryKey).subscriptions)

\* what a component's render got from zeroQueryAtom
ResultOf(c) ==
    [ stateAtom |-> comps[c].stateAtom, queryKey |-> comps[c].queryKey,
      cleanupSubscriptionKey |-> comps[c].cleanupSubscriptionKey ]

\* what the memoize cache holds for a key
Cached(key) ==
    [ stateAtom |-> MapGet(cache, key).stateAtom, queryKey |-> MapGet(cache, key).queryKey,
      cleanupSubscriptionKey |-> MapGet(cache, key).cleanupSubscriptionKey ]

\* C10: every call of zeroQueryAtom returns the result the first call for the same
\* client query key returned (the same stateAtom, queryKey and cleanup), whatever
\* subscriptions the later call passes; different keys have different atoms.
C10_MemoizedOnQueryKey ==
    /\ \A c \in Comps :
          comps[c].mounted =>
              /\ MapHas(cache, comps[c].queryKey)
              /\ ResultOf(c) = Cached(comps[c].queryKey)
    /\ \A c, d \in Comps :
          (comps[c].mounted /\ comps[d].mounted) =>
              (comps[c].queryKey = comps[d].queryKey <=> comps[c].stateAtom = comps[d].stateAtom)
    /\ \A i, j \in 1..Len(cache) :
          cache[i][2].stateAtom = cache[j][2].stateAtom => i = j

\* C10 witness: two components with different subscription keys hold the same
\* atom for the same query key (c2 got the result whose cleanup closes over the
\* key of c1), while a second query key has an atom of its own
C10_Witness ==
    /\ Len(cache) = 2
    /\ comps["c1"].mounted /\ comps["c2"].mounted
    /\ comps["c1"].queryKey = comps["c2"].queryKey
    /\ comps["c1"].stateAtom = comps["c2"].stateAtom
    /\ comps["c2"].cleanupSubscriptionKey # SubKey("c2")

\* C11 as written: when the effect of a component runs with a query key that
\* differs from previousQueryKey and the previous key's view is cached, the
\* cleanup removes from that view the subscription under the component's own
\* subscription key and leaves the other subscriptions of the view as they were.
C11_CleanupRemovesOwnKey ==
    [][ \A c \in Comps :
          ( /\ EffectRuns(c)
            /\ comps[c].previousQueryKey # comps[c].queryKey
            /\ MapHas(viewsMaterialized, comps[c].previousQueryKey) ) =>
              LET idx == MapGet(viewsMaterialized, comps[c].previousQueryKey)
              IN  views'[idx].subscriptions = MapDelete(views[idx].subscriptions, SubKey(c)) ]_vars

----------------------------------------------------------------------------
(* Claims about delivery, under SpecViewLive *)

\* view idx exists, is not destroyed and has entries in its queue
Queued(idx) ==
    /\ idx <= Len(views)
    /\ ~views[idx].destroyed
    /\ views[idx].consolidatedCallbacks # <<>>

\* the timer of view idx has fired since the last non-child push: nothing is
\* queued, no timer is pending and no pushed change waits for the timer
Flushed(idx) ==
    /\ views[idx].consolidatedCallbacks = <<>>
    /\ ~views[idx].timerId
    /\ pending[idx] = <<>>

\* view idx has nothing left to deliver: it is flushed, or it was destroyed
Settled(idx) ==
    /\ idx <= Len(views)
    /\ views[idx].destroyed \/ Flushed(idx)

\* C12: (a) an entry is never queued while no timer is pending; (b) when the timer
\* fires, every queued entry is delivered, with its row, to every subscriber
\* registered at that moment that has the entry's callback, and the queue becomes
\* empty; (c) with time passing and timers firing, a view that has entries queued
\* and is not destroyed is eventually flushed (or destroyed).
C12_EventuallyDelivered ==
    /\ [](\A idx \in 1..Len(views) :
            views[idx].consolidatedCallbacks # <<>> => views[idx].timerId)
    /\ [][ \A idx \in 1..Len(views) :
             Fires(idx) =>
               /\ views'[idx].consolidatedCallbacks = <<>>
               /\ \A q \in 1..Len(views[idx].consolidatedCallbacks),
                    s \in 1..Len(views[idx].subscriptions) :
                    LET entry == views[idx].consolidatedCallbacks[q]
                        sub == views[idx].subscriptions[s][2]
                        fn == typeToFunctionKey(Head(entry[1]))
                    IN  fn \in sub.fns =>
                          \E k \in 1..Len(step'.calls) :
                              step'.calls[k] = Call(idx, sub, fn, <<entry[2]>>) ]_vars
    /\ \A idx \in 1..MaxViews :
          Queued(idx) ~> Settled(idx)

\* C12 witness: the timer of a view that is not destroyed has just fired and has
\* delivered two different queued entries to the same subscriber
C12_Witness ==
    \E idx \in 1..Len(views) :
        /\ ~views[idx].destroyed
        /\ Flushed(idx)
        /\ \E j, k \in 1..Len(step.calls) :
              /\ step.calls[j].view = idx /\ step.calls[k].view = idx
              /\ step.calls[j].key = step.calls[k].key
              /\ step.calls[j].fn \in RowFunctionKeys /\ step.calls[k].fn \in RowFunctionKeys
              /\ <<step.calls[j].fn, step.calls[j].arg>> # <<step.calls[k].fn, step.calls[k].arg>>

----------------------------------------------------------------------------
(* Claims about destroyed views, under SpecDestroy *)

\* C13 as written: once destroy has been called on a view, no step calls a
\* subscriber callback of that view; destroy leaves the debounce queue empty, and
\* a timer that fires on a destroyed view calls nothing.
C13_NoCallbackAfterDestroy ==
    [][ /\ \A k \in 1..Len(step'.calls) :
              step'.calls[k].view <= Len(views) => ~views[step'.calls[k].view].destroyed
        /\ \A i \in 1..Len(step'.onDestroy) :
              views'[step'.onDestroy[i].view].consolidatedCallbacks = <<>>
        /\ \A idx \in 1..Len(views) :
              (Fires(idx) /\ views[idx].destroyed) => step'.calls = <<>> ]_vars

----------------------------------------------------------------------------
(* Claims about onData, under SpecView *)

\* the positions in `calls` of the onData calls made on view idx
OnDataAt(calls, idx) == {k \in 1..Len(calls) : calls[k].view = idx /\ calls[k].fn = "onData"}

\* C14: a pushed change of any type calls, in the same step, onData exactly once on
\* every subscriber registered on the view that has onData, with the data after
\* the change and the view's status; and the constructor calls onData on its
\* subscriber once per fetched node, with the rows added so far.
C14_OnDataNotDebounced ==
    [][ /\ \A i \in 1..Len(step'.push) :
              LET idx == step'.push[i].view
                  change == step'.push[i].change
                  new == CASE change.type = "add" -> views[idx].data \cup {change.row}
                           [] change.type = "remove" -> views[idx].data \ {change.row}
                           [] change.type = "edit" ->
                                (views[idx].data \ {change.oldRow}) \cup {change.row}
                           [] change.type = "child" -> views[idx].data
              IN  /\ views'[idx].data = new
                  /\ \A s \in 1..Len(views[idx].subscriptions) :
                        LET sub == views[idx].subscriptions[s][2]
                            got == {k \in OnDataAt(step'.calls, idx) : step'.calls[k].key = sub.key}
                        IN  "onData" \in sub.fns =>
                              /\ Cardinality(got) = 1
                              /\ \A k \in got : step'.calls[k].arg = <<new, views[idx].status>>
        /\ \A i \in 1..Len(step'.materialize) :
              LET idx == MapGet(viewsMaterialized', step'.materialize[i])
                  sub == step'.getView[i].subscriptions
                  got == OnDataAt(step'.calls, idx)
              IN  "onData" \in sub.fns =>
                    /\ Cardinality(got) = Cardinality(views'[idx].data)
                    /\ \A k \in got :
                          /\ step'.calls[k].key = sub.key
                          /\ step'.calls[k].arg[2] = views'[idx].status
                          /\ step'.calls[k].arg[1] \subseteq views'[idx].data
                          /\ Cardinality(step'.calls[k].arg[1]) = Cardinality({j \in got : j <= k}) ]_vars

\* C14 witness: a change that removes a row has just been pushed to a view with two
\* subscribers, and each of them got an onData call with the data that no longer
\* has the row
C14_Witness ==
    /\ step.push # <<>>
    /\ step.push[1].change.type = "remove"
    /\ LET idx == step.push[1].view
       IN  /\ Len(views[idx].subscriptions) = 2
           /\ Cardinality(OnDataAt(step.calls, idx)) = 2
           /\ \A k \in OnDataAt(step.calls, idx) :
                  /\ step.push[1].change.row \notin step.calls[k].arg[1]
                  /\ step.calls[k].arg[1] = views[idx].data

\* C15: a pushed change of type "child" calls onData on every subscriber that has
\* it, leaves the queue, the timer and the time since the last debounced call as
\* they were, and calls no row callback in its step; and every row callback the
\* timer delivers is for a non-child change pushed since the last flush.
C15_ChildBypassesDebounce ==
    [][ /\ \A i \in 1..Len(step'.push) :
              LET idx == step'.push[i].view
              IN  step'.push[i].change.type = "child" =>
                    /\ views'[idx].consolidatedCallbacks = views[idx].consolidatedCallbacks
                    /\ views'[idx].timerId = views[idx].timerId
                    /\ views'[idx].sinceLastCall = views[idx].sinceLastCall
                    /\ \A k \in 1..Len(step'.calls) : step'.calls[k].fn = "onData"
                    /\ \A s \in 1..Len(views[idx].subscriptions) :
                          "onData" \in views[idx].subscriptions[s][2].fns =>
                              \E k \in OnDataAt(step'.calls, idx) :
                                  step'.calls[k].key = views[idx].subscriptions[s][1]
        /\ \A idx \in 1..Len(views) :
              Fires(idx) =>
                \A k \in 1..Len(step'.calls) :
                    \E n \in 1..Len(pending[idx]) :
                        /\ pending[idx][n].type \in {"add", "remove", "edit"}
                        /\ step'.calls[k].fn = typeToFunctionKey(pending[idx][n].type)
                        /\ step'.calls[k].arg = <<pending[idx][n].row>> ]_vars

\* C15 witness: a child change has just been pushed to a view whose timer had been
\* running for TickMs with an entry queued; the timer was not started again
C15_Witness ==
    /\ step.push # <<>>
    /\ step.push[1].change.type = "child"
    /\ step.calls # <<>>
    /\ LET idx == step.push[1].view
       IN  /\ views[idx].timerId
           /\ views[idx].sinceLastCall = TickMs
           /\ views[idx].consolidatedCallbacks # <<>>

----------------------------------------------------------------------------
(* Claims about subscription keys, under SpecKeys *)

\* C16: the subscriptions of a view hold every key once, so hasSubscribers counts
\* distinct keys; a getMaterializedFactoryView on a cached view with a key that is
\* registered replaces that key's subscription by the caller's and adds no
\* subscriber, and with a new key adds one; every callback is called on the
\* subscription now registered under its key; and a cleanup with a key leaves no
\* subscription under that key, whoever registered it, and the other keys as
\* they were.
C16_SubscribersByKey ==
    [][ /\ \A idx \in 1..Len(views') :
              /\ Len(views'[idx].subscriptions) = Cardinality(MapKeys(views'[idx].subscriptions))
              /\ hasSubscribers(views'[idx]) <=> MapKeys(views'[idx].subscriptions) # {}
        /\ \A i \in 1..Len(step'.getView) :
              LET call == step'.getView[i]
                  after == CachedView(viewsMaterialized', views', call.queryKey).subscriptions
              IN  /\ MapGet(after, call.subscriptions.key) = call.subscriptions
                  /\ MapHas(viewsMaterialized, call.queryKey) =>
                        LET before == CachedView(viewsMaterialized, views, call.queryKey).subscriptions
                        IN  /\ MapKeys(after) = MapKeys(before) \cup {call.subscriptions.key}
                            /\ IF MapHas(before, call.subscriptions.key)
                               THEN /\ Len(after) = Len(before)
                                    /\ step'.replaced = <<MapGet(before, call.subscriptions.key)>>
                               ELSE /\ Len(after) = Len(before) + 1
                                    /\ step'.replaced = <<>>
        /\ \A k \in 1..Len(step'.calls) :
              LET idx == step'.calls[k].view
                  subs == IF idx <= Len(views) THEN views[idx].subscriptions ELSE views'[idx].subscriptions
              IN  /\ MapHas(subs, step'.calls[k].key)
                  /\ MapGet(subs, step'.calls[k].key).owner = step'.calls[k].owner
        /\ \A i \in 1..Len(step'.cleanup) :
              LET call == step'.cleanup[i]
              IN  MapHas(viewsMaterialized, call.queryKey) =>
                    LET idx == MapGet(viewsMaterialized, call.queryKey)
                    IN  /\ \A s \in 1..Len(views'[idx].subscriptions) :
                              views'[idx].subscriptions[s][2].key # call.subscriptionKey
                        /\ hasSubscribers(views'[idx]) =>
                              MapKeys(views'[idx].subscriptions) =
                                  MapKeys(views[idx].subscriptions) \ {call.subscriptionKey} ]_vars

\* C16 witness: caller c3 has just passed the key under which c1 was registered:
\* c1's subscription was replaced and the view still has one subscriber
C16_Witness ==
    /\ step.replaced # <<>>
    /\ step.replaced[1].owner = "c1"
    /\ step.getView[1].subscriptions.owner = "c3"
    /\ step.getView[1].subscriptions.key = step.replaced[1].key
    /\ LET v == CachedView(viewsMaterialized, views, step.getView[1].queryKey)
       IN  /\ Len(v.subscriptions) = 1
           /\ v.subscriptions[1][2].owner = "c3"

====
